---- MODULE Spec2Model ----
(***************************************************************************)
(* TelegramLog (src/index.js): a Duplex stream whose read side is fed by   *)
(* Telegram updates, fetched by polling or delivered to a webhook          *)
(* listener, and whose write side sends messages to one chat.              *)
(***************************************************************************)
EXTENDS Integers, Sequences, FiniteSets, TLC

\* ------------------------------------------------------------- bounds
\* Largest update_id the platform hands out in the model.
MaxId == 1
\* options.highWaterMark of the object-mode stream (Node's default is 16).
HighWaterMark == 2
\* setWebhook({certificate}) calls of close() that have not settled.
MaxClose == 2
\* Pending setTimeout(self._read, 1000) timers.
MaxTimers == 1

\* ------------------------------------------------------------- inputs
\* The chat_id given to the constructor, and another chat's id.
chat_id == 42
OtherChat == 7

\* JavaScript's undefined / null for an absent field.
Absent == "absent"

Texts == {"hi", "dup"}

\* A Message is {chat: {id}, text?}; message.chat.id and message.text.
Messages ==
    [chat : {chat_id, OtherChat}, text : {Absent, "hi"}]
        \cup [chat : {chat_id}, text : Texts]

\* The message of an update that has none (an inline query, say).
NoMessage == [chat |-> OtherChat, text |-> "no message"]

\* An Update is {update_id, message?}.
Updates == [update_id : 0..MaxId, message : {NoMessage} \cup Messages]

\* No getUpdates request in flight (a request asks for at least one update),
\* and no sendMessage call in flight.
NoRequest == [offset |-> 0, limit |-> 0, timeout |-> 0]
NoSend == [chat_id |-> chat_id, text |-> Absent]

\* Batches getUpdates may resolve with, asked for at most limit updates.
RECURSIVE SeqsUpTo(_, _)
SeqsUpTo(S, n) ==
    IF n = 0 THEN {<<>>}
    ELSE LET shorter == SeqsUpTo(S, n - 1)
         IN  shorter \cup {Append(s, x) : s \in {t \in shorter : Len(t) = n - 1}, x \in S}

\* ------------------------------------------------------------- state
VARIABLES
    webhook,          \* the closure variable: "undefined", "object" or "null"
    _updatesOffset,   \* smallest update_id not yet processed
    polling,          \* "undefined", "pending", "settled" (a promise) or "null"
    inFlight,         \* a getUpdates request has not settled
    request,          \* parameters of the request in flight, or NoRequest
    endOnSettle,      \* close() chained end() on the pending polling promise
    timers,           \* pending setTimeout(self._read, 1000)
    fetches,          \* getUpdates calls issued and not settled
    closed,           \* history: close() was called on a Polling instance
    stateEnded,       \* _readableState.ended
    stateLength,      \* _readableState.length
    listener,         \* WebhookPost: "none", "binding", "listening", "closing", "ended"
    registration,     \* setWebhook({url}) of 'open': "none", "pending", "ok", "failed"
    closeUnsets,      \* setWebhook({certificate}) calls of close() not yet settled
    endUnset,         \* setWebhook({certificate}) of the 'end' handler not yet settled
    sending,          \* sendMessage call not yet settled: NoSend or its parameters
    endCalls,         \* end() calls made so far
    dataAfterEnd,     \* self.push(text) was called after end()
    teardowns,        \* webhook.close() calls made so far
    nullCloses,       \* closeWebhook() runs that found webhook === null
    observed,         \* history: the largest update_id handed to the instance, or -1
    instance,         \* the constructor call: "none" yet, "made" or "thrown"
    op                \* the last handler run: its name, what it did, per item

vars == <<webhook, _updatesOffset, polling, inFlight, request, endOnSettle, timers,
          fetches, closed,
          stateEnded, stateLength, listener, registration, closeUnsets, endUnset,
          sending, endCalls, dataAfterEnd, teardowns, nullCloses, observed, instance, op>>

pollVars == <<polling, inFlight, request, endOnSettle, timers, fetches, closed>>
hookVars == <<webhook, listener, registration, closeUnsets, endUnset, teardowns, nullCloses>>
readVars == <<_updatesOffset, stateEnded, stateLength, endCalls, dataAfterEnd, observed>>

\* What a handler ran and did: calls it issued, and one item per update.
Op(name, calls, items) ==
    [name |-> name, calls |-> calls, items |-> items, data |-> <<>>]

\* The same for a handler that was handed the updates in data.
OpOn(data, name, calls, items) == [Op(name, calls, items) EXCEPT !.data = data]

\* ------------------------------------------------------ the read side
\* The part of the instance processUpdate reads and writes, threaded through
\* a batch: the offset, the stream's buffer, and what has been emitted.
ReadState(offset, length, ended, after) ==
    [offset |-> offset, length |-> length, ended |-> ended, after |-> after,
     events |-> <<>>, ret |-> TRUE]

Event(type, arg) == [type |-> type, arg |-> arg]

\* emitError: one 'error' event (an 'error' listener is attached); returns undefined.
emitError(st, message) ==
    [st EXCEPT !.events = Append(@, Event("error", message)), !.ret = FALSE]

\* self.push(chunk) of an object-mode Readable: after end-of-data the chunk is
\* refused with an 'error' event; otherwise it is buffered as one 'data' payload
\* and the result tells whether the buffer is still below the high-water mark.
push(st, chunk) ==
    IF st.ended
    THEN [st EXCEPT !.events = Append(@, Event("error", "stream.push() after EOF")),
                    !.after = TRUE, !.ret = FALSE]
    ELSE [st EXCEPT !.events = Append(@, Event("data", chunk)),
                    !.length = @ + 1, !.ret = (st.length + 1 < HighWaterMark)]

\* Lines 82-84: account update_id as next offset.
AccountOffset(offset, update_id) ==
    IF update_id >= offset THEN update_id + 1 ELSE offset

\* Lines 87-99: check the update is a text message from our chat, then push.
Validate(st, update) ==
    LET message == update.message
    IN  IF message = NoMessage THEN emitError(st, "Inline queries are not supported")
        ELSE IF message.chat # chat_id
             THEN emitError(st, "Received message for not-listening chat")
        ELSE IF message.text = Absent
             THEN emitError(st, "Only text messages are supported")
        ELSE push(st, message.text)

\* A slip of lines 82-99: the offset accounted only for an update that passed.
processUpdate_ValidateFirst(st, update) ==
    LET out == Validate([st EXCEPT !.events = <<>>], update)
    IN  IF out.events # <<>> /\ out.events[1].type = "data"
        THEN [out EXCEPT !.offset = AccountOffset(@, update.update_id)]
        ELSE out

\* Lines 78-100.
processUpdate(st, update) ==
    Validate([st EXCEPT !.offset = AccountOffset(@, update.update_id),
                        !.events = <<>>], update)

\* What one update of a batch or one delivery did: the offset it met, the
\* offset it left, the events it caused and processUpdate's result.
Item(update, before, st) ==
    [update |-> update, before |-> before, after |-> st.offset,
     events |-> st.events, ret |-> st.ret]

\* A slip of line 186: the result of the last update alone.
processUpdate_reduce_LastOnly(acc, update) ==
    LET st == processUpdate(acc.st, update)
    IN  [st |-> st, more |-> st.ret,
         items |-> Append(acc.items, Item(update, acc.st.offset, st))]

\* A slip of line 186: fetchMoreDate && processUpdate(update), which leaves
\* the updates after a falsy result unprocessed.
processUpdate_reduce_StopsAtFalse(acc, update) ==
    IF acc.more
    THEN LET st == processUpdate(acc.st, update)
         IN  [st |-> st, more |-> st.ret,
              items |-> Append(acc.items, Item(update, acc.st.offset, st))]
    ELSE acc

\* data.reduce(processUpdate_reduce, true), with the items it went through.
processUpdate_reduce(acc, update) ==
    LET st == processUpdate(acc.st, update)
    IN  [st |-> st, more |-> (st.ret /\ acc.more),
         items |-> Append(acc.items, Item(update, acc.st.offset, st))]

RECURSIVE reduce(_, _, _)
reduce(acc, data, i) ==
    IF i > Len(data) THEN acc
    ELSE reduce(processUpdate_reduce(acc, data[i]), data, i + 1)

\* end = this.push.bind(this, null): _readableState.ended after the call.
end(ended) == TRUE

Here == ReadState(_updatesOffset, stateLength, stateEnded, dataAfterEnd)

\* The largest update_id among those seen before and the updates of data.
RECURSIVE Largest(_, _, _)
Largest(seen, data, i) ==
    IF i > Len(data) THEN seen
    ELSE Largest(IF data[i].update_id > seen THEN data[i].update_id ELSE seen, data, i + 1)

\* Store what a handler left of the read side, given the updates in data;
\* ends says whether it called end().
Leave(st, data, ends) ==
    /\ observed' = Largest(observed, data, 1)
    /\ _updatesOffset' = st.offset
    /\ stateLength' = st.length
    /\ stateEnded' = IF ends THEN end(st.ended) ELSE st.ended
    /\ dataAfterEnd' = st.after
    /\ endCalls' = IF ends THEN endCalls + 1 ELSE endCalls

\* ---------------------------------------------------------------- Init
Init ==
    /\ webhook \in {"undefined", "object"}
    /\ _updatesOffset = 0
    /\ polling = "undefined"
    /\ inFlight = FALSE
    /\ request = NoRequest
    /\ endOnSettle = FALSE
    /\ timers = 0
    /\ fetches = 0
    /\ closed = FALSE
    /\ stateEnded = FALSE
    /\ stateLength = 0
    /\ listener = IF webhook = "object" THEN "binding" ELSE "none"
    /\ registration = "none"
    /\ closeUnsets = 0
    /\ endUnset = FALSE
    /\ sending = NoSend
    /\ endCalls = 0
    /\ dataAfterEnd = FALSE
    /\ teardowns = 0
    /\ nullCloses = 0
    /\ observed = -1
    /\ instance = "made"
    /\ op = Op("new", <<>>, <<>>)

\* ------------------------------------------------------- the constructor
\* Line 126: the ports Telegram supports.
Ports == {80, 88, 443, 8443}

\* options.webhook: undefined, a hostname, a port number, or an object
\* {hostname, port, certificate}; port 0 stands for an object with no port.
Webhooks ==
    {[type |-> "undefined", port |-> 0], [type |-> "string", port |-> 0]}
        \cup [type : {"number", "object"}, port : Ports \cup {0, 8080}]

\* The arguments of TelegramLog: positional or packed in one object (lines
\* 33-39), token and chat_id given (truthy) or not, and options.webhook.
Arguments == [packed : BOOLEAN, token : BOOLEAN, chat : BOOLEAN, webhook : Webhooks]

\* Line 110, if(webhook): a hostname, a port other than 0, or an object.
Truthy(option) ==
    option.type \in {"string", "object"} \/ (option.type = "number" /\ option.port # 0)

\* A slip of lines 121-133: only a bare port number is checked.
PortAllowed_NumberOnly(option) ==
    option.type # "number" \/ option.port \in Ports

\* Lines 121-133: unless webhook is a string, webhook.port || webhook must be
\* one of the ports (an object with no port is no port).
PortAllowed(option) ==
    option.type = "string" \/ option.port \in Ports

Throw(message, args) ==
    /\ instance' = "thrown"
    /\ op' = Op("throw", <<message>>, <<args>>)
    /\ UNCHANGED <<webhook, listener>>

\* Lines 26-166: the constructor, up to the creation of the listener.
TelegramLog(args) ==
    IF ~ args.token
    THEN Throw(IF args.packed THEN "Missing token" ELSE "TypeError", args)
    ELSE IF ~ args.chat
    THEN Throw("Missing chat_id", args)
    ELSE IF ~ Truthy(args.webhook)
    THEN /\ instance' = "made"
         /\ op' = Op("new", <<>>, <<args>>)
         /\ UNCHANGED <<webhook, listener>>
    ELSE IF ~ PortAllowed(args.webhook)
    THEN Throw("RangeError", args)
    ELSE /\ instance' = "made"
         /\ webhook' = "object"
         /\ listener' = "binding"
         /\ op' = Op("new", <<"WebhookPost">>, <<args>>)

Construct ==
    /\ instance = "none"
    /\ \E args \in Arguments : TelegramLog(args)
    /\ UNCHANGED <<pollVars, readVars, registration, closeUnsets, endUnset,
                   teardowns, nullCloses, sending>>

\* Before the constructor is called.
NotYet ==
    /\ instance = "none"
    /\ webhook = "undefined"
    /\ listener = "none"
    /\ _updatesOffset = 0
    /\ polling = "undefined"
    /\ inFlight = FALSE
    /\ request = NoRequest
    /\ endOnSettle = FALSE
    /\ timers = 0
    /\ fetches = 0
    /\ closed = FALSE
    /\ stateEnded = FALSE
    /\ stateLength = 0
    /\ registration = "none"
    /\ closeUnsets = 0
    /\ endUnset = FALSE
    /\ sending = NoSend
    /\ endCalls = 0
    /\ dataAfterEnd = FALSE
    /\ teardowns = 0
    /\ nullCloses = 0
    /\ observed = -1
    /\ op = Op("none", <<>>, <<>>)

\* ------------------------------------------------------------- polling
\* Lines 219-237: the guard of this._read.
\* A slip of line 225: the pull hook held back only while webhook is an object.
CanRequest_WhileListening ==
    ~ ( inFlight \/ stateEnded \/ HighWaterMark - stateLength = 0
        \/ polling = "null" \/ webhook = "object" )

\* A slip of line 224: the inFlight flag not looked at.
CanRequest_IgnoresInFlight ==
    ~ ( stateEnded \/ HighWaterMark - stateLength = 0
        \/ polling = "null" \/ webhook # "undefined" )

\* Lines 224-226: the guard of _read.
CanRequest ==
    ~ ( inFlight \/ stateEnded \/ HighWaterMark - stateLength = 0
        \/ polling = "null" \/ webhook # "undefined" )

\* A slip of line 222: the whole highWaterMark asked for.
ReadHook_FullLimit(name) ==
    IF CanRequest
    THEN /\ inFlight' = TRUE
         /\ fetches' = fetches + 1
         /\ polling' = "pending"
         /\ request' = [offset |-> _updatesOffset, limit |-> HighWaterMark, timeout |-> 0]
         /\ op' = Op(name, <<"getUpdates">>, <<>>)
    ELSE /\ UNCHANGED <<inFlight, fetches, polling, request>>
         /\ op' = Op(name, <<>>, <<>>)

\* this._read, called by `name`: the stream or the consumer, or a timer.
ReadHook(name) ==
    IF CanRequest
    THEN /\ inFlight' = TRUE
         /\ fetches' = fetches + 1
         /\ polling' = "pending"
         /\ request' = [offset |-> _updatesOffset,
                        limit |-> HighWaterMark - stateLength, timeout |-> 0]
         /\ op' = Op(name, <<"getUpdates">>, <<>>)
    ELSE /\ UNCHANGED <<inFlight, fetches, polling, request>>
         /\ op' = Op(name, <<>>, <<>>)

_read ==
    /\ ReadHook("_read")
    /\ UNCHANGED <<endOnSettle, timers, closed, hookVars, readVars, sending, instance>>

\* A timer set by gotUpdates fires and calls self._read.
Timer ==
    /\ timers > 0
    /\ timers' = timers - 1
    /\ ReadHook("timer")
    /\ UNCHANGED <<endOnSettle, closed, hookVars, readVars, sending, instance>>

\* The consumer takes one buffered payload off the read side.
Consume ==
    /\ stateLength > 0
    /\ stateLength' = stateLength - 1
    /\ op' = Op("read", <<>>, <<>>)
    /\ UNCHANGED <<pollVars, hookVars, _updatesOffset, stateEnded, endCalls,
                   dataAfterEnd, observed, sending, instance>>

\* The promise chain of line 230-236 settles; close() may have chained end().
Settled(calls, data, items, st) ==
    /\ inFlight' = FALSE
    /\ fetches' = fetches - 1
    /\ request' = NoRequest
    /\ UNCHANGED closed
    /\ polling' = IF polling = "pending" THEN "settled" ELSE polling
    /\ endOnSettle' = FALSE
    /\ Leave(st, data, endOnSettle)
    /\ op' = OpOn(data, "settled", IF endOnSettle THEN Append(calls, "end") ELSE calls, items)

\* Lines 194-199: getUpdates resolved with data.
gotUpdates(data) ==
    LET acc == reduce([st |-> Here, more |-> TRUE, items |-> <<>>], data, 1)
    IN  /\ acc.more => timers < MaxTimers
        /\ timers' = IF acc.more THEN timers + 1 ELSE timers
        /\ Settled(IF acc.more THEN <<"gotUpdates", "setTimeout">> ELSE <<"gotUpdates">>,
                   data, acc.items, acc.st)

FetchSucceeds ==
    /\ request # NoRequest
    /\ \E data \in SeqsUpTo(Updates, request.limit) : gotUpdates(data)
    /\ UNCHANGED <<hookVars, sending, instance>>

\* A slip of lines 206-211: the failed request retried on a timer.
onError_Reschedules ==
    /\ timers < MaxTimers
    /\ timers' = timers + 1
    /\ Settled(<<"onError", "emit error">>, <<>>, <<>>, Here)

\* Lines 206-211: getUpdates rejected.
onError ==
    /\ Settled(<<"onError", "emit error">>, <<>>, <<>>, Here)
    /\ UNCHANGED timers

FetchFails ==
    /\ request # NoRequest
    /\ onError
    /\ UNCHANGED <<hookVars, sending, instance>>

\* ------------------------------------------------------------- webhook
\* WebhookPost emits 'open': lines 139-150 register the url.
ListenerOpen ==
    /\ listener = "binding"
    /\ listener' = "listening"
    /\ registration' = "pending"
    /\ op' = Op("open", <<"setWebhook(url)">>, <<>>)
    /\ UNCHANGED <<webhook, closeUnsets, endUnset, teardowns, nullCloses,
                   pollVars, readVars, sending, instance>>

\* setWebhook({url, certificate}) resolved: nothing is chained on success.
RegistrationSucceeds ==
    /\ registration = "pending"
    /\ registration' = "ok"
    /\ op' = Op("registered", <<>>, <<>>)
    /\ UNCHANGED <<webhook, listener, closeUnsets, endUnset, teardowns, nullCloses,
                   pollVars, readVars, sending, instance>>

\* Lines 143-149: setWebhook({url, certificate}) rejected.
RegistrationFails ==
    /\ registration = "pending"
    /\ registration' = "failed"
    /\ webhook' = "null"
    /\ Leave(Here, <<>>, TRUE)
    /\ op' = Op("unregistered", <<"emit error", "end">>, <<>>)
    /\ UNCHANGED <<listener, closeUnsets, endUnset, teardowns, nullCloses,
                   pollVars, sending, instance>>

\* A slip of line 156: the update processed whatever its update_id.
onData_Unchecked(update) ==
    LET st == processUpdate(Here, update)
    IN  /\ Leave(st, <<update>>, FALSE)
        /\ op' = OpOn(<<update>>, "data", <<"processUpdate">>,
                       <<Item(update, _updatesOffset, st)>>)

\* Lines 151-157: the listener's 'data' handler, for one delivered update.
onData(update) ==
    IF update.update_id >= _updatesOffset
    THEN LET st == processUpdate(Here, update)
         IN  /\ Leave(st, <<update>>, FALSE)
             /\ op' = OpOn(<<update>>, "data", <<"processUpdate">>,
                           <<Item(update, _updatesOffset, st)>>)
    ELSE /\ Leave(Here, <<update>>, FALSE)
         /\ op' = OpOn(<<update>>, "data", <<>>, <<Item(update, _updatesOffset, Here)>>)

\* The listener delivers while it listens, also after a failed registration.
Delivery ==
    /\ listener = "listening"
    /\ stateLength <= HighWaterMark
    /\ \E update \in Updates : onData(update)
    /\ UNCHANGED <<hookVars, pollVars, sending, instance>>

\* Line 158: the listener's 'error' is re-emitted on the stream.
ListenerError ==
    /\ listener \in {"binding", "listening", "closing"}
    /\ op' = Op("error", <<"emit error">>, <<>>)
    /\ UNCHANGED <<hookVars, pollVars, readVars, sending, instance>>

\* Lines 159-165: the listener's 'end', after webhook.close() or on its own.
ListenerEnd ==
    /\ listener \in {"listening", "closing"}
    /\ listener' = "ended"
    /\ IF webhook # "object"
       THEN /\ Leave(Here, <<>>, TRUE)
            /\ op' = Op("end", <<"end">>, <<>>)
            /\ UNCHANGED <<webhook, endUnset>>
       ELSE /\ webhook' = "null"
            /\ endUnset' = TRUE
            /\ op' = Op("end", <<"setWebhook(certificate)">>, <<>>)
            /\ UNCHANGED readVars
    /\ UNCHANGED <<registration, closeUnsets, teardowns, nullCloses,
                   pollVars, sending, instance>>

\* Line 164: .then(end, end), the same for success and failure.
EndUnsetSettles ==
    /\ endUnset
    /\ endUnset' = FALSE
    /\ \E ok \in BOOLEAN :
         op' = Op("unset", <<IF ok THEN "resolved" ELSE "rejected", "end">>, <<>>)
    /\ Leave(Here, <<>>, TRUE)
    /\ UNCHANGED <<webhook, listener, registration, closeUnsets, teardowns, nullCloses,
                   pollVars, sending, instance>>

\* Lines 115-119, run when close()'s setWebhook({certificate}) settles:
\* webhook.close() throws a TypeError when webhook is already null.
closeWebhook(settled) ==
    IF webhook = "object"
    THEN /\ teardowns' = teardowns + 1
         /\ listener' = IF listener \in {"binding", "listening"} THEN "closing" ELSE listener
         /\ webhook' = "null"
         /\ op' = Op("closeWebhook", <<settled, "webhook.close">>, <<>>)
         /\ UNCHANGED nullCloses
    ELSE /\ nullCloses' = nullCloses + 1
         /\ op' = Op("closeWebhook", <<settled, "TypeError">>, <<>>)
         /\ UNCHANGED <<teardowns, listener, webhook>>

CloseUnsetSettles ==
    /\ closeUnsets > 0
    /\ closeUnsets' = closeUnsets - 1
    /\ \E ok \in BOOLEAN : closeWebhook(IF ok THEN "resolved" ELSE "rejected")
    /\ UNCHANGED <<registration, endUnset, pollVars, readVars, sending, instance>>

\* ---------------------------------------------------------------- close
\* A slip of lines 281-285: end() called at once, the fetch not waited for.
closePolling_EndsAtOnce ==
    /\ closed' = TRUE
    /\ IF polling \in {"pending", "settled"}
       THEN /\ polling' = "null"
            /\ Leave(Here, <<>>, TRUE)
            /\ op' = Op("close", <<"end">>, <<>>)
            /\ UNCHANGED endOnSettle
       ELSE /\ op' = Op("close", <<>>, <<>>)
            /\ UNCHANGED <<polling, endOnSettle, readVars>>

\* Lines 281-285: polling.then(end, end) on the promise of the last fetch,
\* pending or settled; nothing when no fetch was issued or after a close().
closePolling ==
    /\ closed' = TRUE
    /\ IF polling = "pending"
       THEN /\ endOnSettle' = TRUE
            /\ polling' = "null"
            /\ op' = Op("close", <<"polling.then">>, <<>>)
            /\ UNCHANGED readVars
       ELSE IF polling = "settled"
       THEN /\ polling' = "null"
            /\ Leave(Here, <<>>, TRUE)
            /\ op' = Op("close", <<"polling.then", "end">>, <<>>)
            /\ UNCHANGED endOnSettle
       ELSE /\ op' = Op("close", <<>>, <<>>)
            /\ UNCHANGED <<polling, endOnSettle, readVars>>

\* Lines 273-286.
close ==
    /\ webhook = "object" => closeUnsets < MaxClose
    /\ IF webhook = "null"
       THEN /\ op' = Op("close", <<>>, <<>>)
            /\ UNCHANGED <<closeUnsets, polling, endOnSettle, closed, readVars>>
       ELSE IF webhook = "object"
       THEN /\ closeUnsets' = closeUnsets + 1
            /\ op' = Op("close", <<"setWebhook(certificate)">>, <<>>)
            /\ UNCHANGED <<polling, endOnSettle, closed, readVars>>
       ELSE /\ closePolling
            /\ UNCHANGED closeUnsets
    /\ UNCHANGED <<webhook, listener, registration, endUnset, teardowns, nullCloses,
                   inFlight, request, timers, fetches, sending, instance>>

\* ------------------------------------------------------ the write side
\* Chunks written to the object-mode stream: a JavaScript value by its type
\* and its source text.
Chunk(type, src) == [type |-> type, src |-> src]

Chunks ==
    { Chunk("null", "null"), Chunk("undefined", "undefined"),
      Chunk("string", ""), Chunk("string", "log"),
      Chunk("number", "0"), Chunk("number", "1"),
      Chunk("boolean", "false"), Chunk("array", "[]") }

\* ToPrimitive of an object compared with a string: an array joins its elements.
ToPrimitive(chunk) ==
    IF chunk.type = "array" /\ chunk.src = "[]" THEN Chunk("string", "") ELSE chunk

\* ToNumber of the primitives of Chunks; "NaN" for what is no number.
ToNumber(chunk) ==
    CASE chunk.type = "number" -> chunk.src
      [] chunk.type = "boolean" -> IF chunk.src = "true" THEN "1" ELSE "0"
      [] chunk.type = "string" -> IF chunk.src = "" THEN "0" ELSE "NaN"
      [] OTHER -> "NaN"

\* Line 255, chunk == null: true of null and undefined only.
LooselyNull(chunk) == chunk.type \in {"null", "undefined"}

\* Line 255, chunk == '': JavaScript's abstract equality with the empty string.
LooselyEmpty(chunk) ==
    LET prim == ToPrimitive(chunk)
    IN  CASE prim.type = "string" -> prim.src = ""
          [] prim.type \in {"number", "boolean"} -> ToNumber(prim) = ToNumber(Chunk("string", ""))
          [] OTHER -> FALSE

\* JSON.stringify(chunk): a string is quoted, the other values print as written.
Stringify(chunk) ==
    IF chunk.type = "string" THEN "\"" \o chunk.src \o "\"" ELSE chunk.src

\* Lines 253-263: this._write(chunk, _, done); the Writable calls it for one
\* chunk at a time, the next one after done.
write(chunk) ==
    IF LooselyNull(chunk) \/ LooselyEmpty(chunk)
    THEN /\ op' = Op("_write", <<"done()">>, <<chunk>>)
         /\ UNCHANGED sending
    ELSE /\ sending' = [chat_id |-> chat_id, text |-> Stringify(chunk)]
         /\ op' = Op("_write", <<"sendMessage">>, <<chunk>>)

_write ==
    /\ sending = NoSend
    /\ \E chunk \in Chunks : write(chunk)
    /\ UNCHANGED <<pollVars, hookVars, readVars, instance>>

\* Line 262: .then(done.bind(null, null), done).
SendSettles ==
    /\ sending # NoSend
    /\ sending' = NoSend
    /\ \E ok \in BOOLEAN :
         op' = Op("sent", <<IF ok THEN "done()" ELSE "done(error)">>, <<>>)
    /\ UNCHANGED <<pollVars, hookVars, readVars, instance>>

\* ------------------------------------------------------ specifications
Next ==
    \/ _read
    \/ Timer
    \/ Consume
    \/ FetchSucceeds
    \/ FetchFails
    \/ ListenerOpen
    \/ RegistrationSucceeds
    \/ RegistrationFails
    \/ Delivery
    \/ ListenerError
    \/ ListenerEnd
    \/ EndUnsetSettles
    \/ CloseUnsetSettles
    \/ close
    \/ _write
    \/ SendSettles

Spec == Init /\ [][Next]_vars

\* The read side alone: no action of it reads or writes `sending`.
ReadNext ==
    \/ _read
    \/ Timer
    \/ Consume
    \/ FetchSucceeds
    \/ FetchFails
    \/ ListenerOpen
    \/ RegistrationSucceeds
    \/ RegistrationFails
    \/ Delivery
    \/ ListenerError
    \/ ListenerEnd
    \/ EndUnsetSettles
    \/ CloseUnsetSettles
    \/ close

ReadSpec == Init /\ [][ReadNext]_vars

\* The constructor call and, on the instance it made, the read side.
MadeNext ==
    \/ Construct
    \/ instance = "made" /\ ReadNext

MadeSpec == NotYet /\ [][MadeNext]_vars

\* Every call to the chat API settles: the promise chains of getUpdates and
\* of setWebhook run their reactions.
Settles ==
    /\ WF_vars(FetchSucceeds \/ FetchFails)
    /\ WF_vars(RegistrationSucceeds \/ RegistrationFails)
    /\ WF_vars(EndUnsetSettles)
    /\ WF_vars(CloseUnsetSettles)

FairReadSpec == ReadSpec /\ Settles

\* ------------------------------------------------------------ properties
\* The last handler processed updates: a polling batch or a webhook delivery.
Processed == op.name \in {"settled", "data"}

Stale(item) == item.update.update_id < item.before

IsData(event) == event.type = "data"

\* The events of all the items, in order.
RECURSIVE EventsFrom(_, _)
EventsFrom(items, i) ==
    IF i > Len(items) THEN <<>> ELSE items[i].events \o EventsFrom(items, i + 1)

TextUpdate(id, text) ==
    [update_id |-> id, message |-> [chat |-> chat_id, text |-> text]]

\* C1: in Polling mode an update of a fetched batch whose update_id is lower
\* than the offset at the moment it is processed causes no data event and no
\* error event; the batch [{1, "hi"}, {1, "dup"}] fed to a new instance gives
\* exactly one data event, "hi", and leaves the offset at 2.
C1_StaleUpdateOfBatchIsSilent ==
    op.name = "settled" =>
        /\ \A i \in DOMAIN op.items : Stale(op.items[i]) => op.items[i].events = <<>>
        /\ ( /\ Len(op.items) = 2
             /\ op.items[1].update = TextUpdate(1, "hi")
             /\ op.items[2].update = TextUpdate(1, "dup")
             /\ op.items[1].before = 0 )
           => /\ EventsFrom(op.items, 1) = <<Event("data", "hi")>>
              /\ _updatesOffset = 2

\* C2: in Webhook mode a delivered update whose update_id is lower than the
\* offset causes no event and leaves the offset as it is, and one whose
\* update_id is at least the offset is passed to processUpdate exactly once.
C2_DeliveryChecksOffset ==
    op.name = "data" =>
        LET item == op.items[1]
        IN  IF Stale(item)
            THEN /\ item.events = <<>>
                 /\ op.calls = <<>>
                 /\ item.after = item.before
                 /\ _updatesOffset = item.before
            ELSE /\ op.calls = <<"processUpdate">>
                 /\ Len(item.events) = 1

C2_StaleDelivery ==
    /\ op.name = "data"
    /\ Stale(op.items[1])
    /\ op.items[1].update.message.text = "hi"
    /\ op.items[1].update.message.chat = chat_id

\* C3: the offset is 0 while no update has been observed and otherwise one
\* more than the largest update_id observed, by polling or by the webhook,
\* accepted or rejected by validation; it never decreases; and each update
\* advances it whatever its validation then finds.
OffsetAdvanced(item) ==
    item.after = IF item.update.update_id >= item.before
                 THEN item.update.update_id + 1 ELSE item.before

C3_OffsetIsNextAfterLargest ==
    /\ [](_updatesOffset = observed + 1)
    /\ [](Processed => \A i \in DOMAIN op.items : OffsetAdvanced(op.items[i]))
    /\ [][_updatesOffset' >= _updatesOffset]_vars

C3_RejectedUpdateAdvanced ==
    /\ Processed
    /\ \E i \in DOMAIN op.items :
         /\ op.items[i].after > op.items[i].before
         /\ op.items[i].events # <<>>
         /\ ~ IsData(op.items[i].events[1])
    /\ _updatesOffset = MaxId + 1

\* C4: every update that is not stale causes exactly one event, by the first
\* rule that matches: no message, one error "Inline queries are not
\* supported"; another chat's message, one error "Received message for
\* not-listening chat"; no text, one error "Only text messages are supported";
\* otherwise one data event, the text, and no error.
Expected(update) ==
    IF update.message = NoMessage
    THEN Event("error", "Inline queries are not supported")
    ELSE IF update.message.chat # chat_id
    THEN Event("error", "Received message for not-listening chat")
    ELSE IF update.message.text = Absent
    THEN Event("error", "Only text messages are supported")
    ELSE Event("data", update.message.text)

C4_FreshUpdateOneEvent ==
    Processed =>
        \A i \in DOMAIN op.items :
            ~ Stale(op.items[i]) => op.items[i].events = <<Expected(op.items[i].update)>>

\* C5: end-of-data is terminal: once end() has been called, no data payload
\* is pushed and end() is not called again, whatever is delivered, shut down
\* or settled afterwards.
C5_EndIsTerminal ==
    /\ ~ dataAfterEnd
    /\ endCalls <= 1

\* C6: in Webhook mode close() is idempotent: a second call, before or after
\* the first call's setWebhook({certificate}) has settled, does nothing, so
\* at most one such call is issued by close(), and closeWebhook runs at most
\* once and never with webhook already null.
C6_CloseIsIdempotent ==
    /\ closeUnsets + teardowns + nullCloses <= 1
    /\ nullCloses = 0

\* C7: in Polling mode close() with no fetch in flight, whether or not one
\* was issued before, signals end-of-data without a further fetch.
C7_IdleCloseEnds ==
    (op.name = "close" /\ webhook = "undefined" /\ ~ inFlight) => stateEnded

\* C8: in Polling mode close() during a fetch does not abort it: end-of-data
\* is signaled only when the fetch has settled, after every update of its
\* result has been processed; and it is then signaled: while close() waits
\* the fetch can settle, and the step that settles it signals end-of-data.
PushedAfterEnd(item) ==
    \E k \in DOMAIN item.events : item.events[k] = Event("error", "stream.push() after EOF")

ClosedInFlight == op.name = "close" /\ webhook = "undefined" /\ inFlight

C8_CloseWaitsForFetch ==
    /\ [](ClosedInFlight => endOnSettle /\ request # NoRequest)
    /\ [](endOnSettle => inFlight /\ ~ stateEnded /\ ENABLED FetchFails /\ ENABLED FetchSucceeds)
    /\ [][endOnSettle /\ ~ endOnSettle'
            => /\ op'.name = "settled"
               /\ op'.calls[Len(op'.calls)] = "end"
               /\ \A i \in DOMAIN op'.items : ~ PushedAfterEnd(op'.items[i])
               /\ stateEnded']_vars
    /\ [][endOnSettle /\ ~ inFlight' => stateEnded']_vars

C8_EndedAfterBatch ==
    /\ op.name = "settled"
    /\ op.calls = <<"gotUpdates", "end">>
    /\ Len(op.items) = 2
    /\ IsData(op.items[1].events[1])
    /\ stateEnded
    /\ endCalls = 1

\* C9: in Webhook mode a local close() first issues setWebhook({certificate});
\* the listener is torn down only when that call has settled, the same for
\* success and failure; and end-of-data is signaled only after the teardown.
LocalClose == closeUnsets + teardowns + nullCloses > 0

C9_CloseUnsetsThenTearsDown ==
    /\ (op.name = "close" /\ webhook = "object")
         => op.calls = <<"setWebhook(certificate)">> /\ teardowns = 0
    /\ (op.name = "closeWebhook")
         => op.calls \in {<<"resolved", "webhook.close">>, <<"rejected", "webhook.close">>}
    /\ (LocalClose /\ stateEnded) => teardowns > 0

\* C10: a write of an empty or absent payload completes at once and issues
\* no sendMessage call; a write of any other payload issues exactly one
\* sendMessage call for the configured chat and completes when that call
\* settles, with success or with the call's error.
EmptyOrAbsent(chunk) ==
    chunk \in { Chunk("null", "null"), Chunk("undefined", "undefined"),
                Chunk("string", ""), Chunk("array", "[]") }

C10_WriteSendsOnce ==
    /\ op.name = "_write" =>
         LET chunk == op.items[1]
         IN  IF EmptyOrAbsent(chunk)
             THEN op.calls = <<"done()">> /\ sending = NoSend
             ELSE /\ op.calls = <<"sendMessage">>
                  /\ sending = [chat_id |-> chat_id, text |-> Stringify(chunk)]
    /\ op.name = "sent" =>
         /\ op.calls \in {<<"done()">>, <<"done(error)">>}
         /\ sending = NoSend

\* C11: the constructor throws, before it creates the listener and before
\* any call to the chat API, when in Webhook mode the port is not one of 80,
\* 88, 443 and 8443, and when the token or the chat_id is missing.
BadPort(option) ==
    /\ option.port \notin Ports
    /\ option.type = "object" \/ (option.type = "number" /\ option.port # 0)

NothingStarted ==
    /\ webhook = "undefined" /\ listener = "none" /\ registration = "none"
    /\ ~ inFlight /\ request = NoRequest /\ polling = "undefined"
    /\ closeUnsets = 0 /\ ~ endUnset /\ sending = NoSend

WebhookMode == listener # "none"

WebhookCalls == {"setWebhook(url)", "setWebhook(certificate)", "WebhookPost", "webhook.close"}

Called(names) == \E i \in 1..Len(op.calls) : op.calls[i] \in names

ModesApart ==
    /\ WebhookMode =>
          /\ webhook # "undefined"
          /\ fetches = 0 /\ ~ inFlight /\ request = NoRequest
          /\ polling = "undefined" /\ timers = 0
          /\ ~ Called({"getUpdates"})
    /\ ~ WebhookMode =>
          /\ webhook = "undefined"
          /\ registration = "none" /\ closeUnsets = 0 /\ ~ endUnset
          /\ teardowns = 0 /\ nullCloses = 0
          /\ ~ Called(WebhookCalls)

C12_ModesAreExclusive ==
    /\ [] ModesApart
    /\ [][ /\ WebhookMode' = WebhookMode
           /\ (webhook' = "undefined") = (webhook = "undefined") ]_vars

C12_PullAfterFailedRegistration ==
    /\ WebhookMode
    /\ registration = "failed" /\ webhook = "null"
    /\ op.name = "_read"
    /\ stateLength < HighWaterMark

\* C13: at most one getUpdates call is outstanding at any time, whatever the
\* order of pull-hook calls, timers and settlements; the inFlight flag is set
\* exactly while one is outstanding.
C13_OneFetchInFlight ==
    /\ fetches \in {0, 1}
    /\ inFlight <=> fetches = 1
    /\ request # NoRequest <=> fetches = 1

C13_TimerWhileInFlight ==
    /\ op.name = "timer" /\ op.calls = <<>>
    /\ inFlight /\ fetches = 1
    /\ ~ stateEnded /\ stateLength < HighWaterMark /\ polling = "pending"

\* C14: getUpdates is called only when no call is outstanding, the stream
\* has not ended and the read buffer has free room; the request carries the
\* current offset, limit = highWaterMark - buffered length, and timeout 0.
Issued == op.name \in {"_read", "timer"} /\ op.calls = <<"getUpdates">>

C14_FetchOnlyWhenIdleAndRoom ==
    [][ (fetches' > fetches \/ request' \notin {request, NoRequest}) =>
          /\ ~ inFlight /\ fetches = 0 /\ request = NoRequest
          /\ ~ stateEnded
          /\ HighWaterMark - stateLength > 0
          /\ Issued'
          /\ request' = [offset |-> _updatesOffset,
                         limit |-> HighWaterMark - stateLength, timeout |-> 0]
          /\ UNCHANGED <<_updatesOffset, stateLength, stateEnded>> ]_vars

C14_PartialFetch ==
    /\ Issued
    /\ stateLength = 1
    /\ request = [offset |-> MaxId + 1, limit |-> HighWaterMark - 1, timeout |-> 0]

\* C15: when getUpdates resolves, one delayed call of the pull hook is
\* scheduled exactly when every update of the batch was pushed and every push
\* left the buffer below the high-water mark; an empty batch schedules one, a
\* rejected update or a push that reached the mark schedules none.
Fetched == op.name = "settled" /\ op.calls # <<>> /\ op.calls[1] = "gotUpdates"

Scheduled == Called({"setTimeout"})

\* How many of the first n items pushed a payload.
RECURSIVE Pushes(_, _)
Pushes(items, n) ==
    IF n = 0 THEN 0
    ELSE Pushes(items, n - 1)
            + (IF items[n].events # <<>> /\ IsData(items[n].events[1]) THEN 1 ELSE 0)

AllPushedFreely ==
    LET lengthBefore == stateLength - Pushes(op.items, Len(op.items))
    IN  \A i \in 1..Len(op.data) :
            /\ i <= Len(op.items)
            /\ Expected(op.data[i]).type = "data"
            /\ op.items[i].events = <<Event("data", op.data[i].message.text)>>
            /\ lengthBefore + Pushes(op.items, i) < HighWaterMark

C15_RefetchIffAllPushedFreely ==
    /\ [] (Fetched => (Scheduled <=> AllPushedFreely))
    /\ [][ Fetched' /\ op' # op =>
             timers' = timers + (IF Scheduled' THEN 1 ELSE 0) ]_vars

C15_FullBufferSchedulesNone ==
    /\ Fetched /\ ~ Scheduled
    /\ Len(op.data) = 2
    /\ \A i \in 1..2 : Expected(op.data[i]).type = "data"
    /\ stateLength = HighWaterMark
    /\ timers = 0

\* C16: every update of a fetched batch is processed exactly once, in array
\* order, with its one event; a rejected update or a push that reached the
\* high-water mark skips none of the later updates, does not end the stream
\* (only a close() chained on the fetch does), and leaves the pull hook able
\* to fetch again.
InArrayOrder ==
    /\ Len(op.items) = Len(op.data)
    /\ \A i \in 1..Len(op.data) :
          /\ op.items[i].update = op.data[i]
          /\ op.items[i].events = <<Expected(op.data[i])>>
          /\ op.items[i].after = AccountOffset(op.items[i].before, op.data[i].update_id)
          /\ IF i < Len(op.data)
             THEN op.items[i + 1].before = op.items[i].after
             ELSE _updatesOffset = op.items[i].after

C16_BatchProcessedInOrder ==
    /\ [] (Fetched =>
            /\ InArrayOrder
            /\ stateEnded <=> Called({"end"})
            /\ ~ stateEnded =>
                  /\ ~ inFlight /\ fetches = 0 /\ polling = "settled"
                  /\ stateLength < HighWaterMark => CanRequest)
    /\ [][ Fetched' /\ op' # op =>
             /\ ~ stateEnded
             /\ stateEnded' <=> endOnSettle
             /\ op'.items # <<>> => op'.items[1].before = _updatesOffset ]_vars

C16_LaterUpdateAfterReject ==
    /\ Fetched
    /\ Len(op.data) = 2
    /\ op.items[1].events[1].type = "error"
    /\ op.items[2].events[1].type = "data"
    /\ ~ stateEnded /\ CanRequest

\* C17: when getUpdates rejects, the inFlight flag is cleared, exactly one
\* error event is emitted, the offset and the buffer are left as they were,
\* no timer is set, and the failure does not end the stream (only a close()
\* chained on the fetch does); a pull-hook call that follows, with the stream
\* open and room in the buffer, issues a new request with the same offset.
Failed == op.name = "settled" /\ op.calls # <<>> /\ op.calls[1] = "onError"

C17_FailureKeepsStreamOpen ==
    /\ [] (request # NoRequest => request.offset = _updatesOffset)
    /\ [] (Failed =>
            /\ ~ inFlight /\ fetches = 0
            /\ op.calls \in {<<"onError", "emit error">>, <<"onError", "emit error", "end">>}
            /\ op.items = <<>>
            /\ stateEnded <=> Called({"end"})
            /\ ~ stateEnded /\ stateLength < HighWaterMark => CanRequest)
    /\ [][ Failed' /\ op' # op =>
             /\ ~ stateEnded
             /\ stateEnded' <=> endOnSettle
             /\ request.offset = _updatesOffset
             /\ UNCHANGED <<_updatesOffset, stateLength, timers, dataAfterEnd>> ]_vars
    /\ [][ Failed /\ op'.name = "_read" /\ ~ stateEnded /\ stateLength < HighWaterMark =>
             /\ Issued'
             /\ request'.offset = _updatesOffset
             /\ UNCHANGED _updatesOffset ]_vars

C17_FailureLeavesOpen ==
    /\ Failed
    /\ op.calls = <<"onError", "emit error">>
    /\ ~ stateEnded /\ CanRequest
    /\ _updatesOffset > 0 /\ stateLength > 0

\* C18: when the registration of the webhook fails, exactly one error event
\* is emitted, end-of-data is signaled, and from then on no update delivered
\* to the listener is processed; when it succeeds, no error is emitted and the
\* stream is not ended by it.
C18_FailedRegistrationStopsUpdates ==
    /\ op.name = "unregistered" =>
          op.calls = <<"emit error", "end">> /\ stateEnded /\ registration = "failed"
    /\ op.name = "registered" => op.calls = <<>> /\ registration = "ok"
    /\ registration = "failed" /\ op.name = "data" =>
          /\ op.calls = <<>>
          /\ \A i \in DOMAIN op.items :
                op.items[i].events = <<>> /\ op.items[i].after = op.items[i].before

\* C19: when the listener reports its end and close() was not called, the
\* stream ends without an error event: at once when the webhook is already
\* null, else when the setWebhook({certificate}) call of the handler settles,
\* resolved or rejected, and that call stays pending until it does. When
\* close() was called, the handler signals end-of-data only after a
\* setWebhook({certificate}) call has settled.
EndHandler == op.name \in {"end", "unset"}

UnsetSettled == teardowns + nullCloses > 0 \/ op.name = "unset"

C19_ListenerEndEndsStream ==
    /\ [] (EndHandler =>
            /\ op.calls \in {<<"end">>, <<"setWebhook(certificate)">>,
                              <<"resolved", "end">>, <<"rejected", "end">>}
            /\ Called({"end"}) => stateEnded
            /\ ~ Called({"end"}) => endUnset
            /\ LocalClose /\ Called({"end"}) => UnsetSettled)
    /\ [] (endUnset => webhook = "null" /\ listener = "ended" /\ ENABLED EndUnsetSettles)
    /\ [][ endUnset => endUnset' \/ (stateEnded' /\ op'.name = "unset") ]_vars

\* C20: in Polling mode, once close() has been called no getUpdates call is
\* issued any more, by the stream, by the consumer or by a timer set before
\* the close(), whether or not a fetch had been issued before the close().
C20_NoFetchAfterClose == closed => ~ Issued

====
